---- MODULE Spec2Model ----
(***************************************************************************)
(* rapid-mutex: a mutual-exclusion lock on one shared 32-bit word, built   *)
(* on Atomics.compareExchange / Atomics.wait / Atomics.notify.             *)
(*                                                                         *)
(* Participants are agents (workers) sharing the lock buffers.  Every      *)
(* access to shared memory and every reading of the clock is one step, so  *)
(* other participants and the clock may move between any two of them.      *)
(***************************************************************************)
EXTENDS Integers, FiniteSets, Sequences, TLC

\* ---------------------------------------------------------------- bounds
NumProcs == 2
MaxTime == 2
MaxTimeout == 1
MaxCalls == 3
MaxLen == 4
MaxBufs == 3
MaxCallerCalls == 2

\* ------------------------------------------------------ program constants
Unlocked == 0
Locked == 1
\* JavaScript's Infinity: larger than every clock value and every duration.
Infinity == 1000000

\* A timeout argument that is not of type number, such as the string '5' or
\* null: JavaScript's `<` converts it, and `'5' < 0` and `null < 0` are false.
NonNumeric == 2000000

\* The timeouts a caller passes: finite durations, Infinity, a negative one
\* and one that is not a number.
Timeouts == (0..MaxTimeout) \cup {Infinity, -1, NonNumeric}

\* What a work unit handed to rapidGuard does: return a value or throw.
FnOutcomes == {<<"FnReturn", 42>>, <<"FnThrow", 7>>}

\* Code points an identifier is made of: 'a', 'e' with acute accent and the
\* euro sign, which TextEncoder encodes in one, two and three bytes.
CodePoints == {97, 233, 8364}

\* The strings handed to withMutex, the empty one included.
StringsUpTo(n) == UNION {[1..k -> CodePoints] : k \in 0..n}

Identifiers == StringsUpTo(MaxLen)

VARIABLES
  now,          \* Date.now()
  word,         \* word[b]: buffer b's lock word, buffer[0]
  calls,        \* operations called so far (a handle's first release apart)
  releasedAt,   \* clock at the last completed release (notify done), or -1
  pc,           \* pc[p]: where participant p is in its current operation
  op,           \* op[p]: the operation p runs
  buf,          \* buf[p]: the buffer of p's current operation
  timeoutMs,    \* timeoutMs[p]: the argument of p's lock/lockSync/rapidGuard
  start,        \* start[p]: local `start` of lock/lockSync
  elapsed,      \* elapsed[p]: local `elapsed` of lock/lockSync
  waitDeadline, \* waitDeadline[p]: when p's pending Atomics.wait expires
  waitResult,   \* waitResult[p]: what p's last wait in this attempt returned
  held,         \* held[p][b]: handles of b that p got and has not released
  spent,        \* spent[p][b]: p keeps a handle of b it has released already
  result,       \* result[p]: what p's last operation returned or threw
  fnRes,        \* fnRes[p]: what the work unit of p's rapidGuard produced
  fnRuns,       \* fnRuns[p]: runs of the work unit in p's rapidGuard
  disposeCalls, \* disposeCalls[p]: lockHandle[dispose]() calls in it
  bytes,        \* bytes[b]: the bytes of buffer b that follow its lock word
  sliceEnd      \* sliceEnd[p]: when the latest 1 ms wait of the fallback
                \* waitAsync in p's attempt expires, -1 before the first

env == <<now, calls, releasedAt>>
attempt == <<timeoutMs, start, elapsed, waitDeadline, waitResult>>
guardv == <<fnRes, fnRuns, disposeCalls>>
aux == <<bytes, sliceEnd>>
vars == <<now, word, calls, releasedAt, pc, op, buf, timeoutMs, start, elapsed,
          waitDeadline, waitResult, held, spent, result, fnRes, fnRuns,
          disposeCalls, bytes, sliceEnd>>

Procs == DOMAIN pc
Buffers == DOMAIN word

None == <<"none", 0>>

\* ------------------------------------------------------------ primitives

Max(a, b) == IF a >= b THEN a ELSE b

\* Atomics.compareExchange(buffer, 0, expected, replacement) on a word holding w.
compareExchange(w, expected, replacement) ==
  [old |-> w, new |-> IF w = expected THEN replacement ELSE w]

\* typeof timeoutMs
typeof(t) == IF t = NonNumeric THEN "object" ELSE "number"

\* validateTimeout without the typeof test.
validateTimeout_Untyped(t) == ~(t # Infinity /\ t < 0)

\* validateTimeout: TRUE when it does not throw.
validateTimeout(t) == ~(t # Infinity /\ (typeof(t) # "number" \/ t < 0))

\* Atomics.wait / Atomics.waitAsync at the moment of the call, on a word holding
\* w: "not-equal" and (with no time to wait) "timed-out" come back at once,
\* otherwise the caller is parked ("parked").
AtomicsWait(w, value, timeout) ==
  IF w # value THEN "not-equal"
  ELSE IF timeout = 0 THEN "timed-out"
  ELSE "parked"

\* The participants parked in the wait primitive on buffer b.
Waiters(b) == {q \in Procs : pc[q] = "waiting" /\ buf[q] = b}

\* ------------------------------------------------------------------ Init

\* One mutex from createMutex(): a one-word buffer holding Unlocked.
createMutex == [b \in {1} |-> Unlocked]

\* n participants share the mutex; nobody has called anything yet.
InitN(n) ==
  /\ now = 0
  /\ word = createMutex
  /\ calls = 0
  /\ releasedAt = -1
  /\ pc = [p \in 1..n |-> "idle"]
  /\ op = [p \in 1..n |-> "none"]
  /\ buf = [p \in 1..n |-> 1]
  /\ timeoutMs = [p \in 1..n |-> 0]
  /\ start = [p \in 1..n |-> 0]
  /\ elapsed = [p \in 1..n |-> 0]
  /\ waitDeadline = [p \in 1..n |-> 0]
  /\ waitResult = [p \in 1..n |-> "none"]
  /\ held = [p \in 1..n |-> [b \in DOMAIN createMutex |-> 0]]
  /\ spent = [p \in 1..n |-> [b \in DOMAIN createMutex |-> FALSE]]
  /\ result = [p \in 1..n |-> None]
  /\ fnRes = [p \in 1..n |-> None]
  /\ fnRuns = [p \in 1..n |-> 0]
  /\ disposeCalls = [p \in 1..n |-> 0]
  /\ bytes = [b \in DOMAIN createMutex |-> <<>>]
  /\ sliceEnd = [p \in 1..n |-> -1]

Init == InitN(NumProcs)

\* ----------------------------------------------------------------- clock

\* Time passes.  The clock is followed up to MaxTime, and further while a
\* parked participant's wait still has to expire.
Tick ==
  /\ \/ now < MaxTime
     \/ \E p \in Procs : /\ pc[p] = "waiting"
                          /\ waitDeadline[p] # Infinity
                          /\ now < waitDeadline[p]
  /\ now' = now + 1
  /\ UNCHANGED <<word, calls, releasedAt, pc, op, buf, attempt, held, spent,
                 result, guardv>>
  /\ UNCHANGED aux

\* ------------------------------------------------- ends of an operation

\* The locals of lock/lockSync go out of scope.
DropAttempt(p) ==
  /\ timeoutMs' = [timeoutMs EXCEPT ![p] = 0]
  /\ start' = [start EXCEPT ![p] = 0]
  /\ elapsed' = [elapsed EXCEPT ![p] = 0]
  /\ waitDeadline' = [waitDeadline EXCEPT ![p] = 0]
  /\ waitResult' = [waitResult EXCEPT ![p] = "none"]

\* p's operation ends: its locals are dead, result[p] is what the caller sees.
Finish(p, r) ==
  /\ pc' = [pc EXCEPT ![p] = "idle"]
  /\ op' = [op EXCEPT ![p] = "none"]
  /\ result' = [result EXCEPT ![p] = r]
  /\ DropAttempt(p)
  /\ fnRes' = [fnRes EXCEPT ![p] = None]
  /\ fnRuns' = [fnRuns EXCEPT ![p] = 0]
  /\ disposeCalls' = [disposeCalls EXCEPT ![p] = 0]

\* `throw new MutexError(...)` out of lock/lockSync: the attempt ends, and a
\* rapidGuard awaiting it rejects with the same error.
Throw(p, err) ==
  /\ Finish(p, err)
  /\ UNCHANGED held

\* `return { [dispose]: () => unlock(buffer, true) }`: the caller of lock or
\* lockSync keeps the handle; rapidGuard binds it to lockHandle and goes on.
ReturnHandle(p) ==
  IF op[p] = "guard"
  THEN /\ pc' = [pc EXCEPT ![p] = "guard_fn"]
       /\ DropAttempt(p)
       /\ UNCHANGED <<op, result, guardv, held>>
  ELSE /\ Finish(p, <<"Acquired", timeoutMs[p]>>)
       /\ held' = [held EXCEPT ![p][buf[p]] = @ + 1]

\* A step that only moves p to another place of its operation.
Goto(p, label) ==
  /\ pc' = [pc EXCEPT ![p] = label]
  /\ UNCHANGED <<op, result, guardv, held>>

\* --------------------------------------------------------- lock (async)

\* lock(buffer, timeoutMs) up to `const start = Date.now()`.
lock(p, b, t) ==
  /\ pc[p] = "idle"
  /\ calls < MaxCalls
  /\ calls' = calls + 1
  /\ IF ~validateTimeout(t)
     THEN /\ result' = [result EXCEPT ![p] = <<"InvalidTimeout", 0>>]
          /\ UNCHANGED <<pc, op, buf, timeoutMs, start>>
     ELSE /\ pc' = [pc EXCEPT ![p] = "cas1"]
          /\ op' = [op EXCEPT ![p] = "lock"]
          /\ buf' = [buf EXCEPT ![p] = b]
          /\ timeoutMs' = [timeoutMs EXCEPT ![p] = t]
          /\ start' = [start EXCEPT ![p] = now]
          /\ result' = [result EXCEPT ![p] = None]
  /\ UNCHANGED <<now, releasedAt, word, elapsed, waitDeadline, waitResult,
                 held, spent, guardv>>
  /\ UNCHANGED aux

\* lock as a recursive mutex: a caller that already holds a handle of the
\* buffer is given another one at once.
lock_TryLock_Reentrant(p) ==
  /\ pc[p] = "cas1"
  /\ op[p] \in {"lock", "guard"}
  /\ IF held[p][buf[p]] > 0
     THEN ReturnHandle(p) /\ UNCHANGED word
     ELSE LET cas == compareExchange(word[buf[p]], Unlocked, Locked)
          IN  /\ word' = [word EXCEPT ![buf[p]] = cas.new]
              /\ IF cas.old = Unlocked
                 THEN ReturnHandle(p)
                 ELSE Goto(p, "loop") /\ UNCHANGED attempt
  /\ UNCHANGED <<env, buf, spent>>
  /\ UNCHANGED aux

\* The immediate try-lock.
lock_TryLock(p) ==
  /\ pc[p] = "cas1"
  /\ op[p] \in {"lock", "guard"}
  /\ LET cas == compareExchange(word[buf[p]], Unlocked, Locked)
     IN  /\ word' = [word EXCEPT ![buf[p]] = cas.new]
         /\ IF cas.old = Unlocked
            THEN ReturnHandle(p)
            ELSE Goto(p, "loop") /\ UNCHANGED attempt
  /\ UNCHANGED <<env, buf, spent>>
  /\ UNCHANGED aux

\* lock's deadline test with a clean-up that stores Unlocked before throwing.
lock_Elapsed_Reset(p) ==
  /\ pc[p] = "loop"
  /\ op[p] \in {"lock", "guard"}
  /\ LET e == now - start[p]
     IN  IF timeoutMs[p] # Infinity /\ e > timeoutMs[p]
         THEN /\ Throw(p, <<"TimedOut", timeoutMs[p]>>)
              /\ word' = [word EXCEPT ![buf[p]] = Unlocked]
         ELSE /\ Goto(p, "cas2")
              /\ elapsed' = [elapsed EXCEPT ![p] = e]
              /\ UNCHANGED <<timeoutMs, start, waitDeadline, waitResult, word>>
  /\ UNCHANGED <<env, buf, spent>>
  /\ UNCHANGED aux

\* Head of the loop: `elapsed = Date.now() - start` and the deadline test.
lock_Elapsed(p) ==
  /\ pc[p] = "loop"
  /\ op[p] \in {"lock", "guard"}
  /\ LET e == now - start[p]
     IN  IF timeoutMs[p] # Infinity /\ e > timeoutMs[p]
         THEN Throw(p, <<"TimedOut", timeoutMs[p]>>)
         ELSE /\ Goto(p, "cas2")
              /\ elapsed' = [elapsed EXCEPT ![p] = e]
              /\ UNCHANGED <<timeoutMs, start, waitDeadline, waitResult>>
  /\ UNCHANGED <<env, word, buf, spent>>
  /\ UNCHANGED aux

\* The compare-and-swap inside the loop.
lock_Retry(p) ==
  /\ pc[p] = "cas2"
  /\ op[p] \in {"lock", "guard"}
  /\ LET cas == compareExchange(word[buf[p]], Unlocked, Locked)
     IN  /\ word' = [word EXCEPT ![buf[p]] = cas.new]
         /\ IF cas.old = Unlocked
            THEN ReturnHandle(p)
            ELSE Goto(p, "wait_call") /\ UNCHANGED attempt
  /\ UNCHANGED <<env, buf, spent>>
  /\ UNCHANGED aux

\* lock's wait given the whole timeout again on every iteration.
lock_Wait_Full(p) ==
  /\ pc[p] = "wait_call"
  /\ op[p] \in {"lock", "guard"}
  /\ LET remainingTime == timeoutMs[p]
         r == AtomicsWait(word[buf[p]], Locked, remainingTime)
     IN  IF r = "parked"
         THEN /\ Goto(p, "waiting")
              /\ waitDeadline' = [waitDeadline EXCEPT ![p] =
                    IF remainingTime = Infinity THEN Infinity
                    ELSE now + remainingTime]
              /\ waitResult' = [waitResult EXCEPT ![p] = "none"]
         ELSE /\ Goto(p, "after_wait")
              /\ waitResult' = [waitResult EXCEPT ![p] = r]
              /\ UNCHANGED waitDeadline
  /\ UNCHANGED <<env, word, buf, spent, timeoutMs, start, elapsed>>
  /\ UNCHANGED aux

\* lock's wait with the remaining time one unit short.
lock_Wait_Short(p) ==
  /\ pc[p] = "wait_call"
  /\ op[p] \in {"lock", "guard"}
  /\ LET remainingTime == IF timeoutMs[p] = Infinity THEN Infinity
                          ELSE Max(0, timeoutMs[p] - elapsed[p] - 1)
         r == AtomicsWait(word[buf[p]], Locked, remainingTime)
     IN  IF r = "parked"
         THEN /\ Goto(p, "waiting")
              /\ waitDeadline' = [waitDeadline EXCEPT ![p] =
                    IF remainingTime = Infinity THEN Infinity
                    ELSE now + remainingTime]
              /\ waitResult' = [waitResult EXCEPT ![p] = "none"]
         ELSE /\ Goto(p, "after_wait")
              /\ waitResult' = [waitResult EXCEPT ![p] = r]
              /\ UNCHANGED waitDeadline
  /\ UNCHANGED <<env, word, buf, spent, timeoutMs, start, elapsed>>
  /\ UNCHANGED aux

\* lock's wait never given less than one millisecond: `Math.max(1, ...)`.
lock_Wait_MinOne(p) ==
  /\ pc[p] = "wait_call"
  /\ op[p] \in {"lock", "guard"}
  /\ LET remainingTime == IF timeoutMs[p] = Infinity THEN Infinity
                          ELSE Max(1, timeoutMs[p] - elapsed[p])
         r == AtomicsWait(word[buf[p]], Locked, remainingTime)
     IN  IF r = "parked"
         THEN /\ Goto(p, "waiting")
              /\ waitDeadline' = [waitDeadline EXCEPT ![p] =
                    IF remainingTime = Infinity THEN Infinity
                    ELSE now + remainingTime]
              /\ waitResult' = [waitResult EXCEPT ![p] = "none"]
         ELSE /\ Goto(p, "after_wait")
              /\ waitResult' = [waitResult EXCEPT ![p] = r]
              /\ UNCHANGED waitDeadline
  /\ UNCHANGED <<env, word, buf, spent, timeoutMs, start, elapsed>>
  /\ UNCHANGED aux

\* `remainingTime` and the call of waitAsync (the native Atomics.waitAsync).
lock_Wait(p) ==
  /\ pc[p] = "wait_call"
  /\ op[p] \in {"lock", "guard"}
  /\ LET remainingTime == IF timeoutMs[p] = Infinity THEN Infinity
                          ELSE Max(0, timeoutMs[p] - elapsed[p])
         r == AtomicsWait(word[buf[p]], Locked, remainingTime)
     IN  IF r = "parked"
         THEN /\ Goto(p, "waiting")
              /\ waitDeadline' = [waitDeadline EXCEPT ![p] =
                    IF remainingTime = Infinity THEN Infinity
                    ELSE now + remainingTime]
              /\ waitResult' = [waitResult EXCEPT ![p] = "none"]
         ELSE /\ Goto(p, "after_wait")
              /\ waitResult' = [waitResult EXCEPT ![p] = r]
              /\ UNCHANGED waitDeadline
  /\ UNCHANGED <<env, word, buf, spent, timeoutMs, start, elapsed>>
  /\ UNCHANGED aux

\* lock's tests on waitResult as if the acquisition sat inside rapidGuard's
\* try block: a timed-out acquisition of rapidGuard releases the lock.
lock_AfterWait_Release(p) ==
  /\ pc[p] = "after_wait"
  /\ op[p] \in {"lock", "guard"}
  /\ IF waitResult[p] = "timed-out"
     THEN /\ Throw(p, <<"TimedOut", timeoutMs[p]>>)
          /\ word' = [word EXCEPT ![buf[p]] =
                        IF op[p] = "guard" THEN Unlocked ELSE @]
     ELSE IF waitResult[p] = "interrupted"
     THEN Throw(p, <<"Interrupted", 0>>) /\ UNCHANGED word
     ELSE /\ Goto(p, "loop")
          /\ waitDeadline' = [waitDeadline EXCEPT ![p] = 0]
          /\ UNCHANGED <<timeoutMs, start, elapsed, waitResult, word>>
  /\ UNCHANGED <<env, buf, spent>>
  /\ UNCHANGED aux

\* lock taking a wake-up for a hand-over of the lock: after "ok" it returns
\* the handle without another compare-and-swap.
lock_AfterWait_Handoff(p) ==
  /\ pc[p] = "after_wait"
  /\ op[p] \in {"lock", "guard"}
  /\ IF waitResult[p] = "timed-out"
     THEN Throw(p, <<"TimedOut", timeoutMs[p]>>)
     ELSE IF waitResult[p] = "interrupted"
     THEN Throw(p, <<"Interrupted", 0>>)
     ELSE IF waitResult[p] = "ok"
     THEN ReturnHandle(p)
     ELSE /\ Goto(p, "loop")
          /\ waitDeadline' = [waitDeadline EXCEPT ![p] = 0]
          /\ UNCHANGED <<timeoutMs, start, elapsed, waitResult>>
  /\ UNCHANGED <<env, word, buf, spent>>
  /\ UNCHANGED aux

\* The tests on waitResult that close the loop body.
lock_AfterWait(p) ==
  /\ pc[p] = "after_wait"
  /\ op[p] \in {"lock", "guard"}
  /\ IF waitResult[p] = "timed-out"
     THEN Throw(p, <<"TimedOut", timeoutMs[p]>>)
     ELSE IF waitResult[p] = "interrupted"
     THEN Throw(p, <<"Interrupted", 0>>)
     ELSE /\ Goto(p, "loop")
          /\ waitDeadline' = [waitDeadline EXCEPT ![p] = 0]
          /\ UNCHANGED <<timeoutMs, start, elapsed, waitResult>>
  /\ UNCHANGED <<env, word, buf, spent>>
  /\ UNCHANGED aux

\* ---------------------------------------- waitAsync without Atomics.waitAsync

\* lock's `remainingTime` and the call of the fallback waitAsync: the Promise
\* executor computes `deadline` and runs loop() for the first time, which
\* reads the clock again and resolves 'timed-out' when nothing is left,
\* before any look at the word.
waitAsync_Fallback(p) ==
  /\ pc[p] = "wait_call"
  /\ op[p] \in {"lock", "guard"}
  /\ LET remainingTime == IF timeoutMs[p] = Infinity THEN Infinity
                          ELSE Max(0, timeoutMs[p] - elapsed[p])
         deadline == IF remainingTime = Infinity THEN Infinity
                     ELSE now + remainingTime
     IN  /\ waitDeadline' = [waitDeadline EXCEPT ![p] = deadline]
         /\ IF now >= deadline
            THEN /\ Goto(p, "after_wait")
                 /\ waitResult' = [waitResult EXCEPT ![p] = "timed-out"]
            ELSE /\ Goto(p, "slice_call")
                 /\ waitResult' = [waitResult EXCEPT ![p] = "none"]
  /\ UNCHANGED <<env, word, buf, spent, timeoutMs, start, elapsed, aux>>

\* The fallback's loop() run again by setImmediate: `now = Date.now()` and the
\* test against deadline.
waitAsync_Loop(p) ==
  /\ pc[p] = "poll"
  /\ IF now >= waitDeadline[p]
     THEN /\ Goto(p, "after_wait")
          /\ waitResult' = [waitResult EXCEPT ![p] = "timed-out"]
     ELSE /\ Goto(p, "slice_call")
          /\ UNCHANGED waitResult
  /\ UNCHANGED <<env, word, buf, spent, timeoutMs, start, elapsed,
                 waitDeadline, aux>>

\* The fallback's Atomics.wait(buffer, index, value, 1): "not-equal" at once,
\* or the thread is parked for one millisecond at most.
waitAsync_Slice(p) ==
  /\ pc[p] = "slice_call"
  /\ LET res == AtomicsWait(word[buf[p]], Locked, 1)
     IN  IF res = "parked"
         THEN /\ Goto(p, "waiting")
              /\ sliceEnd' = [sliceEnd EXCEPT ![p] = now + 1]
              /\ UNCHANGED waitResult
         ELSE /\ Goto(p, "after_wait")
              /\ waitResult' = [waitResult EXCEPT ![p] = res]
              /\ UNCHANGED sliceEnd
  /\ UNCHANGED <<env, word, buf, spent, timeoutMs, start, elapsed,
                 waitDeadline, bytes>>

\* The fallback's Atomics.wait returns "timed-out": setImmediate(loop).
waitAsync_SliceTimedOut(p) ==
  /\ pc[p] = "waiting"
  /\ sliceEnd[p] >= 0
  /\ now >= sliceEnd[p]
  /\ Goto(p, "poll")
  /\ UNCHANGED <<env, word, buf, spent, attempt, aux>>

\* --------------------------------------------------- lockSync (blocking)

\* lockSync(buffer, timeoutMs) up to `const start = Date.now()`.
lockSync(p, b, t) ==
  /\ pc[p] = "idle"
  /\ calls < MaxCalls
  /\ calls' = calls + 1
  /\ IF ~validateTimeout(t)
     THEN /\ result' = [result EXCEPT ![p] = <<"InvalidTimeout", 0>>]
          /\ UNCHANGED <<pc, op, buf, timeoutMs, start>>
     ELSE /\ pc' = [pc EXCEPT ![p] = "cas1"]
          /\ op' = [op EXCEPT ![p] = "lockSync"]
          /\ buf' = [buf EXCEPT ![p] = b]
          /\ timeoutMs' = [timeoutMs EXCEPT ![p] = t]
          /\ start' = [start EXCEPT ![p] = now]
          /\ result' = [result EXCEPT ![p] = None]
  /\ UNCHANGED <<now, releasedAt, word, elapsed, waitDeadline, waitResult,
                 held, spent, guardv>>
  /\ UNCHANGED aux

\* lockSync testing the deadline before its first compare-and-swap: with a
\* timeout of 0 it gives up without trying.
lockSync_TryLock_Deadline(p) ==
  /\ pc[p] = "cas1"
  /\ op[p] = "lockSync"
  /\ IF timeoutMs[p] = 0
     THEN Throw(p, <<"TimedOut", timeoutMs[p]>>) /\ UNCHANGED word
     ELSE LET cas == compareExchange(word[buf[p]], Unlocked, Locked)
          IN  /\ word' = [word EXCEPT ![buf[p]] = cas.new]
              /\ IF cas.old = Unlocked
                 THEN ReturnHandle(p)
                 ELSE Goto(p, "loop") /\ UNCHANGED attempt
  /\ UNCHANGED <<env, buf, spent>>
  /\ UNCHANGED aux

\* The immediate try-lock.
lockSync_TryLock(p) ==
  /\ pc[p] = "cas1"
  /\ op[p] = "lockSync"
  /\ LET cas == compareExchange(word[buf[p]], Unlocked, Locked)
     IN  /\ word' = [word EXCEPT ![buf[p]] = cas.new]
         /\ IF cas.old = Unlocked
            THEN ReturnHandle(p)
            ELSE Goto(p, "loop") /\ UNCHANGED attempt
  /\ UNCHANGED <<env, buf, spent>>
  /\ UNCHANGED aux

\* lockSync giving up as soon as the whole timeout has gone by: its deadline
\* test is `elapsed >= timeoutMs`.
lockSync_Elapsed_Inclusive(p) ==
  /\ pc[p] = "loop"
  /\ op[p] = "lockSync"
  /\ LET e == now - start[p]
     IN  IF timeoutMs[p] # Infinity /\ e >= timeoutMs[p]
         THEN Throw(p, <<"TimedOut", timeoutMs[p]>>)
         ELSE /\ Goto(p, "cas2")
              /\ elapsed' = [elapsed EXCEPT ![p] = e]
              /\ UNCHANGED <<timeoutMs, start, waitDeadline, waitResult>>
  /\ UNCHANGED <<env, word, buf, spent>>
  /\ UNCHANGED aux

\* Head of the loop: `elapsed = Date.now() - start` and the deadline test.
lockSync_Elapsed(p) ==
  /\ pc[p] = "loop"
  /\ op[p] = "lockSync"
  /\ LET e == now - start[p]
     IN  IF timeoutMs[p] # Infinity /\ e > timeoutMs[p]
         THEN Throw(p, <<"TimedOut", timeoutMs[p]>>)
         ELSE /\ Goto(p, "cas2")
              /\ elapsed' = [elapsed EXCEPT ![p] = e]
              /\ UNCHANGED <<timeoutMs, start, waitDeadline, waitResult>>
  /\ UNCHANGED <<env, word, buf, spent>>
  /\ UNCHANGED aux

\* lockSync's compare-and-swap in the loop with its result never compared:
\* the handle is returned whatever the word held.
lockSync_Retry_Blind(p) ==
  /\ pc[p] = "cas2"
  /\ op[p] = "lockSync"
  /\ LET cas == compareExchange(word[buf[p]], Unlocked, Locked)
     IN  /\ word' = [word EXCEPT ![buf[p]] = cas.new]
         /\ ReturnHandle(p)
  /\ UNCHANGED <<env, buf, spent>>
  /\ UNCHANGED aux

\* The compare-and-swap inside the loop.
lockSync_Retry(p) ==
  /\ pc[p] = "cas2"
  /\ op[p] = "lockSync"
  /\ LET cas == compareExchange(word[buf[p]], Unlocked, Locked)
     IN  /\ word' = [word EXCEPT ![buf[p]] = cas.new]
         /\ IF cas.old = Unlocked
            THEN ReturnHandle(p)
            ELSE Goto(p, "wait_call") /\ UNCHANGED attempt
  /\ UNCHANGED <<env, buf, spent>>
  /\ UNCHANGED aux

\* lockSync waiting on the wrong value, Atomics.wait(buffer, 0, Unlocked, ...):
\* the thread is blocked when the word is Unlocked.
lockSync_Wait_WrongValue(p) ==
  /\ pc[p] = "wait_call"
  /\ op[p] = "lockSync"
  /\ LET remainingTime == IF timeoutMs[p] = Infinity THEN Infinity
                          ELSE Max(0, timeoutMs[p] - elapsed[p])
         r == AtomicsWait(word[buf[p]], Unlocked, remainingTime)
     IN  IF r = "parked"
         THEN /\ Goto(p, "waiting")
              /\ waitDeadline' = [waitDeadline EXCEPT ![p] =
                    IF remainingTime = Infinity THEN Infinity
                    ELSE now + remainingTime]
              /\ waitResult' = [waitResult EXCEPT ![p] = "none"]
         ELSE /\ Goto(p, "after_wait")
              /\ waitResult' = [waitResult EXCEPT ![p] = r]
              /\ UNCHANGED waitDeadline
  /\ UNCHANGED <<env, word, buf, spent, timeoutMs, start, elapsed>>
  /\ UNCHANGED aux

\* `remainingTime` and the call of Atomics.wait, which blocks the thread.
lockSync_Wait(p) ==
  /\ pc[p] = "wait_call"
  /\ op[p] = "lockSync"
  /\ LET remainingTime == IF timeoutMs[p] = Infinity THEN Infinity
                          ELSE Max(0, timeoutMs[p] - elapsed[p])
         r == AtomicsWait(word[buf[p]], Locked, remainingTime)
     IN  IF r = "parked"
         THEN /\ Goto(p, "waiting")
              /\ waitDeadline' = [waitDeadline EXCEPT ![p] =
                    IF remainingTime = Infinity THEN Infinity
                    ELSE now + remainingTime]
              /\ waitResult' = [waitResult EXCEPT ![p] = "none"]
         ELSE /\ Goto(p, "after_wait")
              /\ waitResult' = [waitResult EXCEPT ![p] = r]
              /\ UNCHANGED waitDeadline
  /\ UNCHANGED <<env, word, buf, spent, timeoutMs, start, elapsed>>
  /\ UNCHANGED aux

\* The tests on waitResult that close the loop body.
lockSync_AfterWait(p) ==
  /\ pc[p] = "after_wait"
  /\ op[p] = "lockSync"
  /\ IF waitResult[p] = "timed-out"
     THEN Throw(p, <<"TimedOut", timeoutMs[p]>>)
     ELSE IF waitResult[p] = "interrupted"
     THEN Throw(p, <<"Interrupted", 0>>)
     ELSE /\ Goto(p, "loop")
          /\ waitDeadline' = [waitDeadline EXCEPT ![p] = 0]
          /\ UNCHANGED <<timeoutMs, start, elapsed, waitResult>>
  /\ UNCHANGED <<env, word, buf, spent>>
  /\ UNCHANGED aux

\* The wait primitive gives up: a parked participant's time has run out.
WaitTimedOut(p) ==
  /\ pc[p] = "waiting"
  /\ waitDeadline[p] # Infinity
  /\ now >= waitDeadline[p]
  /\ Goto(p, "after_wait")
  /\ waitResult' = [waitResult EXCEPT ![p] = "timed-out"]
  /\ UNCHANGED <<env, word, buf, spent, timeoutMs, start, elapsed,
                 waitDeadline>>
  /\ UNCHANGED aux

\* ------------------------------------------------------ unlock, dispose

\* mutex.unlock(): unlock(buffer) with fromDispose = false.
unlock(p, b) ==
  /\ pc[p] = "idle"
  /\ calls < MaxCalls
  /\ calls' = calls + 1
  /\ pc' = [pc EXCEPT ![p] = "unlock_cas"]
  /\ op' = [op EXCEPT ![p] = "unlock"]
  /\ buf' = [buf EXCEPT ![p] = b]
  /\ result' = [result EXCEPT ![p] = None]
  /\ UNCHANGED <<now, releasedAt, word, attempt, held, spent, guardv>>
  /\ UNCHANGED aux

\* handle[dispose](): unlock(buffer, true).  again = FALSE releases a handle p
\* got and has not released; again = TRUE calls a released handle once more.
\* A handle counts as released once the compare-and-swap of its first
\* [dispose]() has run.
dispose(p, b, again) ==
  /\ pc[p] = "idle"
  /\ IF again
     THEN spent[p][b] /\ calls < MaxCalls /\ calls' = calls + 1
     ELSE held[p][b] > 0 /\ UNCHANGED calls
  /\ pc' = [pc EXCEPT ![p] = "unlock_cas"]
  /\ op' = [op EXCEPT ![p] = IF again THEN "redispose" ELSE "dispose"]
  /\ buf' = [buf EXCEPT ![p] = b]
  /\ result' = [result EXCEPT ![p] = None]
  /\ UNCHANGED <<now, releasedAt, word, attempt, held, spent, guardv>>
  /\ UNCHANGED aux

\* The fromDispose argument of p's running unlock.
fromDispose(p) == op[p] \in {"dispose", "redispose", "guard"}

\* unlock(buffer, fromDispose) returns to its caller: the mutex object's
\* unlock(), a handle's [dispose](), or rapidGuard's finally block, after
\* which rapidGuard settles with what the work unit produced.
ReturnFromUnlock(p) ==
  IF op[p] = "guard" THEN Finish(p, fnRes[p]) ELSE Finish(p, <<"Done", 0>>)

\* unlock releasing with Atomics.sub(buffer, 0, 1) instead of the
\* compare-and-swap: the word is decremented whatever it held.
unlock_Cas_Sub(p) ==
  /\ pc[p] = "unlock_cas"
  /\ LET currentState == word[buf[p]]
     IN  /\ word' = [word EXCEPT ![buf[p]] = currentState - 1]
         /\ IF currentState # Locked
            THEN IF fromDispose(p)
                 THEN ReturnFromUnlock(p)
                 ELSE Finish(p, <<"NotLocked", 0>>)
            ELSE /\ pc' = [pc EXCEPT ![p] = "unlock_notify"]
                 /\ UNCHANGED <<op, result, attempt, guardv>>
  /\ IF op[p] = "dispose"
     THEN /\ held' = [held EXCEPT ![p][buf[p]] = @ - 1]
          /\ spent' = [spent EXCEPT ![p][buf[p]] = TRUE]
     ELSE UNCHANGED <<held, spent>>
  /\ UNCHANGED <<env, buf>>
  /\ UNCHANGED aux

\* unlock ignoring fromDispose: it returns silently whenever the word was not
\* Locked.
unlock_Cas_Silent(p) ==
  /\ pc[p] = "unlock_cas"
  /\ LET cas == compareExchange(word[buf[p]], Locked, Unlocked)
     IN  /\ word' = [word EXCEPT ![buf[p]] = cas.new]
         /\ IF cas.old # Locked
            THEN ReturnFromUnlock(p)
            ELSE /\ pc' = [pc EXCEPT ![p] = "unlock_notify"]
                 /\ UNCHANGED <<op, result, attempt, guardv>>
  /\ IF op[p] = "dispose"
     THEN /\ held' = [held EXCEPT ![p][buf[p]] = @ - 1]
          /\ spent' = [spent EXCEPT ![p][buf[p]] = TRUE]
     ELSE UNCHANGED <<held, spent>>
  /\ UNCHANGED <<env, buf>>
  /\ UNCHANGED aux

\* unlock checking ownership: the standalone unlock() of a participant that
\* holds no handle of the buffer fails and leaves the word alone.
unlock_Cas_Owner(p) ==
  /\ pc[p] = "unlock_cas"
  /\ IF op[p] = "unlock" /\ held[p][buf[p]] = 0
     THEN /\ Finish(p, <<"NotLocked", 0>>)
          /\ UNCHANGED word
     ELSE LET cas == compareExchange(word[buf[p]], Locked, Unlocked)
          IN  /\ word' = [word EXCEPT ![buf[p]] = cas.new]
              /\ IF cas.old # Locked
                 THEN IF fromDispose(p)
                      THEN ReturnFromUnlock(p)
                      ELSE Finish(p, <<"NotLocked", 0>>)
                 ELSE /\ pc' = [pc EXCEPT ![p] = "unlock_notify"]
                      /\ UNCHANGED <<op, result, attempt, guardv>>
  /\ IF op[p] = "dispose"
     THEN /\ held' = [held EXCEPT ![p][buf[p]] = @ - 1]
          /\ spent' = [spent EXCEPT ![p][buf[p]] = TRUE]
     ELSE UNCHANGED <<held, spent>>
  /\ UNCHANGED <<env, buf>>
  /\ UNCHANGED aux

\* unlock: the compare-and-swap and the test on currentState.
unlock_Cas(p) ==
  /\ pc[p] = "unlock_cas"
  /\ LET cas == compareExchange(word[buf[p]], Locked, Unlocked)
     IN  /\ word' = [word EXCEPT ![buf[p]] = cas.new]
         /\ IF cas.old # Locked
            THEN IF fromDispose(p)
                 THEN ReturnFromUnlock(p)
                 ELSE Finish(p, <<"NotLocked", 0>>)
            ELSE /\ pc' = [pc EXCEPT ![p] = "unlock_notify"]
                 /\ UNCHANGED <<op, result, attempt, guardv>>
  /\ IF op[p] = "dispose"
     THEN /\ held' = [held EXCEPT ![p][buf[p]] = @ - 1]
          /\ spent' = [spent EXCEPT ![p][buf[p]] = TRUE]
     ELSE UNCHANGED <<held, spent>>
  /\ UNCHANGED <<env, buf>>
  /\ UNCHANGED aux

\* unlock with Atomics.notify(buffer, 0, 1): a single parked participant is
\* woken.
unlock_Notify_One(p) ==
  /\ pc[p] = "unlock_notify"
  /\ LET woken == IF Waiters(buf[p]) = {} THEN {}
                  ELSE {CHOOSE q \in Waiters(buf[p]) : TRUE}
     IN  /\ pc' = [q \in Procs |->
                    IF q = p THEN "idle"
                    ELSE IF q \in woken THEN "after_wait" ELSE pc[q]]
         /\ waitResult' = [q \in Procs |->
                    IF q \in woken THEN "ok" ELSE waitResult[q]]
  /\ op' = [op EXCEPT ![p] = "none"]
  /\ result' = [result EXCEPT ![p] =
                  IF op[p] = "guard" THEN fnRes[p] ELSE <<"Done", 0>>]
  /\ fnRes' = [fnRes EXCEPT ![p] = None]
  /\ fnRuns' = [fnRuns EXCEPT ![p] = 0]
  /\ disposeCalls' = [disposeCalls EXCEPT ![p] = 0]
  /\ releasedAt' = now
  /\ UNCHANGED <<now, calls, word, buf, held, spent, timeoutMs, start, elapsed,
                 waitDeadline>>
  /\ UNCHANGED aux

\* unlock without its Atomics.notify: nobody is woken.
unlock_Notify_NoWake(p) ==
  /\ pc[p] = "unlock_notify"
  /\ pc' = [pc EXCEPT ![p] = "idle"]
  /\ op' = [op EXCEPT ![p] = "none"]
  /\ result' = [result EXCEPT ![p] =
                  IF op[p] = "guard" THEN fnRes[p] ELSE <<"Done", 0>>]
  /\ fnRes' = [fnRes EXCEPT ![p] = None]
  /\ fnRuns' = [fnRuns EXCEPT ![p] = 0]
  /\ disposeCalls' = [disposeCalls EXCEPT ![p] = 0]
  /\ releasedAt' = now
  /\ UNCHANGED <<now, calls, word, buf, held, spent, attempt>>
  /\ UNCHANGED aux

\* unlock: Atomics.notify(buffer, 0) wakes every participant parked on the
\* word, then unlock returns.
unlock_Notify(p) ==
  /\ pc[p] = "unlock_notify"
  /\ LET woken == Waiters(buf[p])
     IN  /\ pc' = [q \in Procs |->
                    IF q = p THEN "idle"
                    ELSE IF q \in woken THEN "after_wait" ELSE pc[q]]
         /\ waitResult' = [q \in Procs |->
                    IF q \in woken THEN "ok" ELSE waitResult[q]]
  /\ op' = [op EXCEPT ![p] = "none"]
  /\ result' = [result EXCEPT ![p] =
                  IF op[p] = "guard" THEN fnRes[p] ELSE <<"Done", 0>>]
  /\ fnRes' = [fnRes EXCEPT ![p] = None]
  /\ fnRuns' = [fnRuns EXCEPT ![p] = 0]
  /\ disposeCalls' = [disposeCalls EXCEPT ![p] = 0]
  /\ releasedAt' = now
  /\ UNCHANGED <<now, calls, word, buf, held, spent, timeoutMs, start, elapsed,
                 waitDeadline>>
  /\ UNCHANGED aux


\* --------------------------------------------------- buffers from strings

\* TextEncoder.encode: the UTF-8 bytes of one code point of the basic plane.
encodeChar(c) ==
  IF c < 128 THEN <<c>>
  ELSE IF c < 2048 THEN <<192 + (c \div 64), 128 + (c % 64)>>
  ELSE <<224 + (c \div 4096), 128 + ((c \div 64) % 64), 128 + (c % 64)>>

RECURSIVE encode(_)
\* TextEncoder.encode: the UTF-8 bytes of a string.
encode(str) ==
  IF str = <<>> THEN <<>> ELSE encodeChar(Head(str)) \o encode(Tail(str))

\* int32View[0] of a buffer given as its bytes (little-endian host).
Int32At0(mem) == mem[1] + 256 * mem[2] + 65536 * mem[3] + 16777216 * mem[4]

\* The four bytes int32View[0] = v stores, for the values LockStatus has.
Int32Bytes(v) ==
  <<v % 256, (v \div 256) % 256, (v \div 65536) % 256, (v \div 16777216) % 256>>

\* createBufferFromString rounding up with Math.floor(totalSize / 4) + 1: a
\* whole word of padding where none is needed.
createBufferFromString_PadWord(input) ==
  LET identifier == encode(input)
      headerSize == 4
      totalSize == headerSize + Len(identifier)
      alignedSize == ((totalSize \div 4) + 1) * 4
      fresh == [i \in 1..alignedSize |-> 0]
      locked == [i \in 1..alignedSize |->
                   IF i <= 4 THEN Int32Bytes(Unlocked)[i] ELSE fresh[i]]
      copied == [i \in 1..alignedSize |->
                   IF i > headerSize /\ i <= headerSize + Len(identifier)
                   THEN identifier[i - headerSize] ELSE locked[i]]
  IN  [i \in 1..alignedSize |-> IF i > totalSize THEN 0 ELSE copied[i]]

\* The bytes of the buffer createBufferFromString allocates for a non-empty
\* string: a zero-filled SharedArrayBuffer of alignedSize bytes, the lock word
\* stored through the Int32Array view, the identifier copied behind it and the
\* padding filled with zeros.
createBufferFromString(input) ==
  LET identifier == encode(input)
      headerSize == 4
      totalSize == headerSize + Len(identifier)
      alignedSize == ((totalSize + 3) \div 4) * 4
      fresh == [i \in 1..alignedSize |-> 0]
      locked == [i \in 1..alignedSize |->
                   IF i <= 4 THEN Int32Bytes(Unlocked)[i] ELSE fresh[i]]
      copied == [i \in 1..alignedSize |->
                   IF i > headerSize /\ i <= headerSize + Len(identifier)
                   THEN identifier[i - headerSize] ELSE locked[i]]
  IN  [i \in 1..alignedSize |-> IF i > totalSize THEN 0 ELSE copied[i]]

\* What withMutex may be given: nothing, a string, a buffer that
\* validateMutexBuffer accepts, or anything else (a number, a plain array).
Inputs(strings) ==
  {[kind |-> "null"], [kind |-> "other"]}
    \cup {[kind |-> "string", str |-> x] : x \in strings}
    \cup {[kind |-> "buffer", ref |-> b] : b \in Buffers}

\* withMutex(input) throws: nothing changes but what the caller sees.
withMutex_Throw(p, err) ==
  /\ result' = [result EXCEPT ![p] = err]
  /\ UNCHANGED <<word, bytes, held, spent>>

\* withMutex keeping a registry of names: a string that was given before
\* yields the buffer derived then.
withMutex_Shared(p, input) ==
  /\ pc[p] = "idle"
  /\ IF input.kind = "null"
     THEN withMutex_Throw(p, <<"InvalidInput", 0>>)
     ELSE IF input.kind = "string"
     THEN IF input.str = <<>>
          THEN withMutex_Throw(p, <<"InvalidInput", 0>>)
          ELSE LET mem == createBufferFromString(input.str)
                   nb == Cardinality(Buffers) + 1
                   same == {b \in Buffers : bytes[b] = SubSeq(mem, 5, Len(mem))}
               IN  IF same # {}
                   THEN /\ result' = [result EXCEPT ![p] =
                                        <<"Mutex", CHOOSE b \in same : TRUE>>]
                        /\ UNCHANGED <<word, bytes, held, spent>>
                   ELSE
                   /\ nb <= MaxBufs
                   /\ word' = [b \in Buffers \cup {nb} |->
                                 IF b = nb THEN Int32At0(mem) ELSE word[b]]
                   /\ bytes' = [b \in Buffers \cup {nb} |->
                                 IF b = nb THEN SubSeq(mem, 5, Len(mem))
                                 ELSE bytes[b]]
                   /\ held' = [q \in Procs |-> [b \in Buffers \cup {nb} |->
                                 IF b = nb THEN 0 ELSE held[q][b]]]
                   /\ spent' = [q \in Procs |-> [b \in Buffers \cup {nb} |->
                                 IF b = nb THEN FALSE ELSE spent[q][b]]]
                   /\ result' = [result EXCEPT ![p] = <<"Mutex", nb>>]
     ELSE IF input.kind = "buffer"
     THEN /\ result' = [result EXCEPT ![p] = <<"Mutex", input.ref>>]
          /\ UNCHANGED <<word, bytes, held, spent>>
     ELSE withMutex_Throw(p, <<"InvalidBuffer", 0>>)
  /\ UNCHANGED <<env, pc, op, buf, attempt, guardv, sliceEnd>>

\* withMutex initialising a buffer it is given as createMutex does its own:
\* `buffer[0] = LockStatus.Unlocked`.
withMutex_Reset(p, input) ==
  /\ pc[p] = "idle"
  /\ IF input.kind = "null"
     THEN withMutex_Throw(p, <<"InvalidInput", 0>>)
     ELSE IF input.kind = "string"
     THEN IF input.str = <<>>
          THEN withMutex_Throw(p, <<"InvalidInput", 0>>)
          ELSE LET mem == createBufferFromString(input.str)
                   nb == Cardinality(Buffers) + 1
               IN  /\ nb <= MaxBufs
                   /\ word' = [b \in Buffers \cup {nb} |->
                                 IF b = nb THEN Int32At0(mem) ELSE word[b]]
                   /\ bytes' = [b \in Buffers \cup {nb} |->
                                 IF b = nb THEN SubSeq(mem, 5, Len(mem))
                                 ELSE bytes[b]]
                   /\ held' = [q \in Procs |-> [b \in Buffers \cup {nb} |->
                                 IF b = nb THEN 0 ELSE held[q][b]]]
                   /\ spent' = [q \in Procs |-> [b \in Buffers \cup {nb} |->
                                 IF b = nb THEN FALSE ELSE spent[q][b]]]
                   /\ result' = [result EXCEPT ![p] = <<"Mutex", nb>>]
     ELSE IF input.kind = "buffer"
     THEN /\ result' = [result EXCEPT ![p] = <<"Mutex", input.ref>>]
          /\ word' = [word EXCEPT ![input.ref] = Unlocked]
          /\ UNCHANGED <<bytes, held, spent>>
     ELSE withMutex_Throw(p, <<"InvalidBuffer", 0>>)
  /\ UNCHANGED <<env, pc, op, buf, attempt, guardv, sliceEnd>>

\* withMutex(input): a mutex object on the given buffer, or on a new buffer
\* derived from the given string.
withMutex(p, input) ==
  /\ pc[p] = "idle"
  /\ IF input.kind = "null"
     THEN withMutex_Throw(p, <<"InvalidInput", 0>>)
     ELSE IF input.kind = "string"
     THEN IF input.str = <<>>
          THEN withMutex_Throw(p, <<"InvalidInput", 0>>)
          ELSE LET mem == createBufferFromString(input.str)
                   nb == Cardinality(Buffers) + 1
               IN  /\ nb <= MaxBufs
                   /\ word' = [b \in Buffers \cup {nb} |->
                                 IF b = nb THEN Int32At0(mem) ELSE word[b]]
                   /\ bytes' = [b \in Buffers \cup {nb} |->
                                 IF b = nb THEN SubSeq(mem, 5, Len(mem))
                                 ELSE bytes[b]]
                   /\ held' = [q \in Procs |-> [b \in Buffers \cup {nb} |->
                                 IF b = nb THEN 0 ELSE held[q][b]]]
                   /\ spent' = [q \in Procs |-> [b \in Buffers \cup {nb} |->
                                 IF b = nb THEN FALSE ELSE spent[q][b]]]
                   /\ result' = [result EXCEPT ![p] = <<"Mutex", nb>>]
     ELSE IF input.kind = "buffer"
     THEN /\ result' = [result EXCEPT ![p] = <<"Mutex", input.ref>>]
          /\ UNCHANGED <<word, bytes, held, spent>>
     ELSE withMutex_Throw(p, <<"InvalidBuffer", 0>>)
  /\ UNCHANGED <<env, pc, op, buf, attempt, guardv, sliceEnd>>

\* mutex.isLocked(): one atomic load of the lock word.
isLocked(p, b) ==
  /\ pc[p] = "idle"
  /\ calls < MaxCalls
  /\ calls' = calls + 1
  /\ result' = [result EXCEPT ![p] =
                  <<"IsLocked", IF word[b] = Locked THEN 1 ELSE 0>>]
  /\ UNCHANGED <<now, releasedAt, word, pc, op, buf, attempt, held, spent,
                 guardv, aux>>

\* ------------------------------------------------------------ rapidGuard

\* rapidGuard(mutex, fn, timeoutMs) up to the first step of mutex.lock:
\* mutexOk says the mutex argument has a lock method, fnOk that fn is callable.
rapidGuard(p, b, mutexOk, fnOk, t) ==
  /\ pc[p] = "idle"
  /\ calls < MaxCalls
  /\ calls' = calls + 1
  /\ IF ~mutexOk
     THEN /\ result' = [result EXCEPT ![p] = <<"InvalidMutex", 0>>]
          /\ UNCHANGED <<pc, op, buf, timeoutMs, start>>
     ELSE IF ~fnOk
     THEN /\ result' = [result EXCEPT ![p] = <<"InvalidFunction", 0>>]
          /\ UNCHANGED <<pc, op, buf, timeoutMs, start>>
     ELSE IF ~validateTimeout(t)
     THEN /\ result' = [result EXCEPT ![p] = <<"InvalidTimeout", 0>>]
          /\ UNCHANGED <<pc, op, buf, timeoutMs, start>>
     ELSE /\ pc' = [pc EXCEPT ![p] = "cas1"]
          /\ op' = [op EXCEPT ![p] = "guard"]
          /\ buf' = [buf EXCEPT ![p] = b]
          /\ timeoutMs' = [timeoutMs EXCEPT ![p] = t]
          /\ start' = [start EXCEPT ![p] = now]
          /\ result' = [result EXCEPT ![p] = None]
  /\ UNCHANGED <<now, releasedAt, word, elapsed, waitDeadline, waitResult,
                 held, spent, guardv>>
  /\ UNCHANGED aux

\* rapidGuard without try/finally: a work unit that throws skips the release.
rapidGuard_Fn_NoFinally(p, r) ==
  /\ pc[p] = "guard_fn"
  /\ IF r[1] = "FnThrow"
     THEN /\ Finish(p, r)
          /\ UNCHANGED <<env, word, buf, held, spent>>
     ELSE /\ pc' = [pc EXCEPT ![p] = "guard_finally"]
          /\ fnRes' = [fnRes EXCEPT ![p] = r]
          /\ fnRuns' = [fnRuns EXCEPT ![p] = @ + 1]
          /\ UNCHANGED <<env, word, op, buf, attempt, held, spent, result,
                         disposeCalls>>
  /\ UNCHANGED aux

\* `return await fn()`: the work unit runs and returns or throws r.
rapidGuard_Fn(p, r) ==
  /\ pc[p] = "guard_fn"
  /\ pc' = [pc EXCEPT ![p] = "guard_finally"]
  /\ fnRes' = [fnRes EXCEPT ![p] = r]
  /\ fnRuns' = [fnRuns EXCEPT ![p] = @ + 1]
  /\ UNCHANGED <<env, word, op, buf, attempt, held, spent, result,
                 disposeCalls>>
  /\ UNCHANGED aux

\* `finally { lockHandle[dispose]() }`: unlock(buffer, true) is entered.
rapidGuard_Finally(p) ==
  /\ pc[p] = "guard_finally"
  /\ pc' = [pc EXCEPT ![p] = "unlock_cas"]
  /\ disposeCalls' = [disposeCalls EXCEPT ![p] = @ + 1]
  /\ UNCHANGED <<env, word, op, buf, attempt, held, spent, result, fnRes,
                 fnRuns>>
  /\ UNCHANGED aux

\* ------------------------------------------------------- specifications

\* The steps of a running lock or lockSync.
AcquireSteps(p) ==
  \/ lock_TryLock(p)
  \/ lock_Elapsed(p)
  \/ lock_Retry(p)
  \/ lock_Wait(p)
  \/ lock_AfterWait(p)
  \/ lockSync_TryLock(p)
  \/ lockSync_Elapsed(p)
  \/ lockSync_Retry(p)
  \/ lockSync_Wait(p)
  \/ lockSync_AfterWait(p)

LockSteps(p) ==
  \/ AcquireSteps(p)
  \/ WaitTimedOut(p)

\* Every operation of the library, called in any order by every participant.
Next ==
  \/ Tick
  \/ \E p \in Procs :
       \/ \E b \in Buffers, t \in Timeouts : lock(p, b, t)
       \/ \E b \in Buffers, t \in Timeouts : lockSync(p, b, t)
       \/ LockSteps(p)
       \/ \E b \in Buffers : unlock(p, b)
       \/ \E b \in Buffers, again \in BOOLEAN : dispose(p, b, again)
       \/ unlock_Cas(p)
       \/ unlock_Notify(p)
       \/ \E b \in Buffers, mutexOk \in BOOLEAN, fnOk \in BOOLEAN,
             t \in Timeouts : rapidGuard(p, b, mutexOk, fnOk, t)
       \/ \E r \in FnOutcomes : rapidGuard_Fn(p, r)
       \/ rapidGuard_Finally(p)

Spec == Init /\ [][Next]_vars

\* Each handle is released once, by the participant that got it: only lock,
\* lockSync and the first [dispose]() of a handle are called.
NextOnce ==
  \/ Tick
  \/ \E p \in Procs :
       \/ \E b \in Buffers, t \in Timeouts : lock(p, b, t)
       \/ \E b \in Buffers, t \in Timeouts : lockSync(p, b, t)
       \/ LockSteps(p)
       \/ \E b \in Buffers : dispose(p, b, FALSE)
       \/ unlock_Cas(p)
       \/ unlock_Notify(p)

SpecOnce == InitN(NumProcs + 1) /\ [][NextOnce]_vars

\* The same calls under fair scheduling: the clock advances and a participant
\* inside an operation is eventually scheduled.  Nobody has to call anything.
FairOnce ==
  /\ Init
  /\ [][NextOnce]_vars
  /\ WF_vars(Tick)
  /\ \A p \in 1..NumProcs :
       WF_vars(LockSteps(p) \/ unlock_Cas(p) \/ unlock_Notify(p))

\* Three participants and the async lock with no deadline, against every kind
\* of release: unlock(), a handle's first [dispose]() and a repeated one.
NextWake ==
  \E p \in Procs :
    \/ \E b \in Buffers : lock(p, b, Infinity)
    \/ lock_TryLock(p)
    \/ lock_Elapsed(p)
    \/ lock_Retry(p)
    \/ lock_Wait(p)
    \/ lock_AfterWait(p)
    \/ \E b \in Buffers : unlock(p, b)
    \/ \E b \in Buffers, again \in BOOLEAN : dispose(p, b, again)
    \/ unlock_Cas(p)
    \/ unlock_Notify(p)

SpecWake == InitN(NumProcs + 1) /\ [][NextWake]_vars

\* Participants that acquire with no deadline (lock, lockSync or rapidGuard)
\* while they hold nothing, and release every handle once.
NextInf ==
  \E p \in Procs :
    \/ \E b \in Buffers : held[p][b] = 0 /\ lock(p, b, Infinity)
    \/ \E b \in Buffers : held[p][b] = 0 /\ lockSync(p, b, Infinity)
    \/ \E b \in Buffers :
         held[p][b] = 0 /\ rapidGuard(p, b, TRUE, TRUE, Infinity)
    \/ AcquireSteps(p)
    \/ \E r \in FnOutcomes : rapidGuard_Fn(p, r)
    \/ rapidGuard_Finally(p)
    \/ \E b \in Buffers : dispose(p, b, FALSE)
    \/ unlock_Cas(p)
    \/ unlock_Notify(p)

\* A participant inside an operation is eventually scheduled, and one that
\* holds a handle eventually releases it.
FairInf ==
  /\ InitN(NumProcs + 1)
  /\ [][NextInf]_vars
  /\ \A p \in 1..(NumProcs + 1) :
       WF_vars(\/ AcquireSteps(p)
               \/ \E r \in FnOutcomes : rapidGuard_Fn(p, r)
               \/ rapidGuard_Finally(p)
               \/ \E b \in DOMAIN createMutex : dispose(p, b, FALSE)
               \/ unlock_Cas(p)
               \/ unlock_Notify(p))


\* A string identifier's buffer is derived and nothing else is done.
NextDerive ==
  \E input \in Inputs(Identifiers) :
    Cardinality(Buffers) = 1 /\ withMutex(1, input)

SpecDerive == InitN(1) /\ [][NextDerive]_vars

\* The timeouts used where no clock runs: give up at once, or never.
NoClockTimeouts == {0, Infinity}

\* Two identifiers, of one and of five bytes.
Names == {<<97>>, <<8364, 233>>}

\* Several buffers: the one of createMutex() and buffers derived from two
\* strings, given twice if the callers like.  Every operation of a mutex
\* object is called on any of them.
NextBuffers ==
  \E p \in Procs :
    \/ \E x \in Names : withMutex(p, [kind |-> "string", str |-> x])
    \/ \E b \in Buffers, t \in NoClockTimeouts : lock(p, b, t)
    \/ \E b \in Buffers, t \in NoClockTimeouts : lockSync(p, b, t)
    \/ LockSteps(p)
    \/ \E b \in Buffers : unlock(p, b)
    \/ \E b \in Buffers, again \in BOOLEAN : dispose(p, b, again)
    \/ unlock_Cas(p)
    \/ unlock_Notify(p)
    \/ \E b \in Buffers : isLocked(p, b)

SpecBuffers == Init /\ [][NextBuffers]_vars

\* A host without Atomics.waitAsync: the async lock waits through the
\* fallback, against every kind of release.
NextFallback ==
  \/ Tick
  \/ \E p \in Procs :
       \/ \E b \in Buffers, t \in Timeouts : lock(p, b, t)
       \/ lock_TryLock(p)
       \/ lock_Elapsed(p)
       \/ lock_Retry(p)
       \/ waitAsync_Fallback(p)
       \/ waitAsync_Loop(p)
       \/ waitAsync_Slice(p)
       \/ waitAsync_SliceTimedOut(p)
       \/ lock_AfterWait(p)
       \/ \E b \in Buffers : unlock(p, b)
       \/ \E b \in Buffers : dispose(p, b, FALSE)
       \/ unlock_Cas(p)
       \/ unlock_Notify(p)

SpecFallback == Init /\ [][NextFallback]_vars

\* First words a caller may have left in an Int32Array of its own before
\* handing it to withMutex: values that LockStatus does not have.
CallerWords == {2, -1}

\* The mutex of createMutex() as buffer 1 and, as buffer 2, a one-word
\* Int32Array on a SharedArrayBuffer that the caller made and wrote itself.
InitCaller ==
  /\ now = 0
  /\ word \in {[b \in 1..2 |-> IF b = 1 THEN createMutex[1] ELSE v] :
                 v \in CallerWords}
  /\ calls = 0
  /\ releasedAt = -1
  /\ pc = [p \in 1..NumProcs |-> "idle"]
  /\ op = [p \in 1..NumProcs |-> "none"]
  /\ buf = [p \in 1..NumProcs |-> 1]
  /\ timeoutMs = [p \in 1..NumProcs |-> 0]
  /\ start = [p \in 1..NumProcs |-> 0]
  /\ elapsed = [p \in 1..NumProcs |-> 0]
  /\ waitDeadline = [p \in 1..NumProcs |-> 0]
  /\ waitResult = [p \in 1..NumProcs |-> "none"]
  /\ held = [p \in 1..NumProcs |-> [b \in 1..2 |-> 0]]
  /\ spent = [p \in 1..NumProcs |-> [b \in 1..2 |-> FALSE]]
  /\ result = [p \in 1..NumProcs |-> None]
  /\ fnRes = [p \in 1..NumProcs |-> None]
  /\ fnRuns = [p \in 1..NumProcs |-> 0]
  /\ disposeCalls = [p \in 1..NumProcs |-> 0]
  /\ bytes = [b \in 1..2 |-> <<>>]
  /\ sliceEnd = [p \in 1..NumProcs |-> -1]

\* The buffers are wrapped by withMutex, then every operation of the mutex
\* objects is called on them.  An attempt with a finite timeout starts early
\* enough for the clock that is followed to pass its deadline.
NextCaller ==
  \/ Tick
  \/ \E p \in Procs :
       \/ \E b \in Buffers :
            calls = 0 /\ withMutex(p, [kind |-> "buffer", ref |-> b])
       \/ \E b \in Buffers, t \in (0..MaxTimeout) \cup {Infinity} :
            /\ calls < MaxCallerCalls
            /\ t = Infinity \/ now + t < MaxTime
            /\ lock(p, b, t)
       \/ \E b \in Buffers, t \in (0..MaxTimeout) \cup {Infinity} :
            /\ calls < MaxCallerCalls
            /\ t = Infinity \/ now + t < MaxTime
            /\ lockSync(p, b, t)
       \/ LockSteps(p)
       \/ \E b \in Buffers : calls < MaxCallerCalls /\ unlock(p, b)
       \/ \E b \in Buffers : dispose(p, b, FALSE)
       \/ unlock_Cas(p)
       \/ unlock_Notify(p)

\* Fair scheduling: the clock advances and a participant inside an operation
\* is eventually scheduled.
FairCaller ==
  /\ InitCaller
  /\ [][NextCaller]_vars
  /\ WF_vars(Tick)
  /\ \A p \in 1..NumProcs :
       WF_vars(LockSteps(p) \/ unlock_Cas(p) \/ unlock_Notify(p))

\* ---------------------------------------------------------------- claims

\* p is inside lock/lockSync (called directly or by rapidGuard).
InAttempt(p) ==
  pc[p] \in {"cas1", "loop", "cas2", "wait_call", "waiting", "after_wait"}

RECURSIVE SumHeld(_, _)
\* The handles of buffer b that the participants in S got and have not released.
SumHeld(S, b) ==
  IF S = {} THEN 0
  ELSE LET p == CHOOSE x \in S : TRUE
       IN  held[p][b] + SumHeld(S \ {p}, b)

\* C1: mutual exclusion.  With every handle released once by the participant
\* that got it, at most one handle of a buffer is acquired and not yet
\* released, whatever the interleaving of lock and lockSync attempts.
C1_MutualExclusion ==
  \A b \in Buffers : SumHeld(Procs, b) <= 1

\* C1 witness: one participant holds the lock while two others contend for
\* it, one parked in the wait primitive and one about to retry.
C1_Witness ==
  \E p, q, r \in Procs :
    /\ held[p][1] = 1
    /\ pc[q] = "waiting"
    /\ pc[r] = "cas2"

\* C2: a handle is inert after its first release.  A second or later
\* [dispose]() of a handle raises no error and leaves the lock word as it is.
C2_HandleInert ==
  [][\A p \in Procs :
       (op[p] = "redispose" /\ pc[p] = "unlock_cas" /\ pc'[p] # "unlock_cas")
         => /\ word' = word
            /\ result'[p][1] # "NotLocked"]_vars

\* C4: the standalone unlock() on an Unlocked word fails with the not-locked
\* error, leaves the word Unlocked and wakes nobody, while a release that comes
\* from a handle returns silently in that case.
C4_UnlockUnlocked ==
  [][\A p \in Procs :
       (pc[p] = "unlock_cas" /\ pc'[p] # "unlock_cas"
          /\ word[buf[p]] = Unlocked)
         => /\ word' = word
            /\ pc'[p] = "idle"
            /\ \A q \in Procs : pc[q] = "waiting" => pc'[q] = "waiting"
            /\ IF op[p] = "unlock"
               THEN result'[p] = <<"NotLocked", 0>>
               ELSE result'[p][1] # "NotLocked"]_vars

\* C4 witness: an unlock() has just failed with the not-locked error on an
\* Unlocked word while another participant is still parked on that word (its
\* holder has swapped the word and not yet notified).
C4_Witness ==
  \E p, q, r \in Procs :
    /\ result[p] = <<"NotLocked", 0>>
    /\ pc[p] = "idle"
    /\ word[1] = Unlocked
    /\ pc[q] = "waiting"
    /\ pc[r] = "unlock_notify"

\* C5: an acquisition attempt that times out never writes the lock word.  A
\* step of an attempt that changes the word ends the attempt with a handle,
\* and the step that ends an attempt in the timed-out error leaves the word
\* as it is.
C5_TimedOutNeverWrites ==
  [][\A p \in Procs :
       /\ (InAttempt(p) /\ pc'[p] # pc[p] /\ word' # word)
            => /\ word[buf[p]] = Unlocked
               /\ word'[buf[p]] = Locked
               /\ IF op[p] = "guard" THEN pc'[p] = "guard_fn"
                  ELSE result'[p][1] = "Acquired"
       /\ (InAttempt(p) /\ result'[p][1] = "TimedOut")
            => word' = word]_vars

\* C5 witness: an attempt has timed out while another participant's handle
\* keeps the word Locked.
C5_Witness ==
  \E p, q \in Procs :
    /\ result[p][1] = "TimedOut"
    /\ held[q][1] = 1
    /\ word[1] = Locked

\* C10: fast path.  When the word is Unlocked at the first compare-and-swap of
\* lock or lockSync, that very step returns the handle with the word Locked:
\* the wait primitive is not reached, whatever the timeout.
C10_FastPath ==
  [][\A p \in Procs :
       (pc[p] = "cas1" /\ pc'[p] # "cas1" /\ word[buf[p]] = Unlocked)
         => /\ word'[buf[p]] = Locked
            /\ IF op[p] = "guard" THEN pc'[p] = "guard_fn"
               ELSE /\ pc'[p] = "idle"
                    /\ result'[p] = <<"Acquired", timeoutMs[p]>>
                    /\ held'[p][buf[p]] = held[p][buf[p]] + 1]_vars

\* C10 witness: lock(0) or lockSync(0) has returned a handle.
C10_Witness ==
  \E p \in Procs :
    /\ result[p] = <<"Acquired", 0>>
    /\ held[p][1] = 1
    /\ word[1] = Locked

\* C3: liveness under simple contention.  One holder, one waiter with a finite
\* timeout: when the holder's release has completed before the waiter's
\* timeout has elapsed since its attempt started, the waiter's attempt does
\* not end in the timed-out error.
C3_ReleaseBeforeDeadline ==
  [][\A w \in Procs :
       (/\ InAttempt(w)
        /\ timeoutMs[w] # Infinity
        /\ calls = 2
        /\ \E h \in Procs \ {w} :
             pc[h] = "idle" /\ spent[h][buf[w]] /\ held[h][buf[w]] = 0
        /\ releasedAt >= start[w]
        /\ releasedAt < start[w] + timeoutMs[w])
         => result'[w][1] # "TimedOut"]_vars

\* C6: timeout.  An attempt with a finite timeout T ends only with a handle,
\* taken from an Unlocked word, or with the timed-out error carrying T, thrown
\* no earlier than T after the attempt started; and it does end unless the
\* word is seen other than Locked, so against a lock that stays held it
\* terminates with the timed-out error.
C6_Timeout ==
  /\ [][\A p \in Procs :
          (InAttempt(p) /\ timeoutMs[p] # Infinity /\ pc'[p] = "idle")
            => \/ /\ result'[p] = <<"Acquired", timeoutMs[p]>>
                  /\ word[buf[p]] = Unlocked
               \/ /\ result'[p] = <<"TimedOut", timeoutMs[p]>>
                  /\ now >= start[p] + timeoutMs[p]]_vars
  /\ \A p \in 1..NumProcs :
       (InAttempt(p) /\ timeoutMs[p] # Infinity)
         ~> (~InAttempt(p) \/ word[buf[p]] # Locked)

\* C6 witness: lock(1) or lockSync(1) has failed with the timed-out error
\* carrying 1 while another participant holds the lock.
C6_Witness ==
  \E p, q \in Procs :
    /\ result[p] = <<"TimedOut", 1>>
    /\ held[q][1] = 1
    /\ word[1] = Locked

\* p's rapidGuard has its handle: the work unit runs or has run.
GuardHolds(p) ==
  /\ op[p] = "guard"
  /\ pc[p] \in {"guard_fn", "guard_finally", "unlock_cas", "unlock_notify"}

\* Nobody but p holds a handle of b, tries to get one, or runs rapidGuard.
NoOtherAcquirer(p, b) ==
  \A q \in Procs \ {p} :
    held[q][b] = 0 /\ ~InAttempt(q) /\ op[q] # "guard"

\* C7: rapidGuard, once it has the lock.  It settles only after one run of the
\* work unit followed by one [dispose]() of its handle, on the return and on
\* the throw path alike, with what the work unit returned or threw; and with
\* no other acquirer the word is Unlocked when it settles.
C7_GuardReleasesOnce ==
  [][\A p \in Procs :
       /\ (GuardHolds(p) /\ pc'[p] = "idle")
            => /\ fnRuns[p] = 1
               /\ disposeCalls[p] = 1
               /\ fnRes[p] \in FnOutcomes
               /\ result'[p] = fnRes[p]
               /\ NoOtherAcquirer(p, buf[p])' => word'[buf[p]] = Unlocked
       /\ (op[p] = "guard" /\ disposeCalls'[p] > disposeCalls[p])
            => fnRuns[p] = 1 /\ disposeCalls[p] = 0
       /\ (op[p] = "guard" /\ fnRuns'[p] > fnRuns[p])
            => fnRuns[p] = 0 /\ pc[p] = "guard_fn"]_vars

\* C7 witness: a rapidGuard whose work unit threw has settled with that error
\* and the word is Unlocked.
C7_Witness ==
  \E p \in Procs :
    /\ result[p] = <<"FnThrow", 7>>
    /\ pc[p] = "idle"
    /\ word[1] = Unlocked

\* C8: rapidGuard failing before the work unit starts.  A call that fails its
\* validation, and an acquisition of rapidGuard that times out, leave the lock
\* word exactly as it was, with no run of the work unit and no [dispose]().
C8_GuardFailsFast ==
  [][\A p \in Procs :
       /\ (/\ pc[p] = "idle" /\ pc'[p] = "idle" /\ calls' # calls
           /\ result'[p][1] \in {"InvalidMutex", "InvalidFunction"})
            => /\ word' = word
               /\ fnRuns'[p] = 0
               /\ disposeCalls'[p] = 0
       /\ (op[p] = "guard" /\ InAttempt(p) /\ pc'[p] = "idle")
            => /\ result'[p] = <<"TimedOut", timeoutMs[p]>>
               /\ word' = word
               /\ fnRuns[p] = 0
               /\ disposeCalls[p] = 0
       /\ (op[p] = "guard" /\ InAttempt(p))
            => fnRuns[p] = 0 /\ disposeCalls[p] = 0]_vars

\* C8 witness: the acquisition of a rapidGuard is about to fail with a timeout
\* while another participant's handle keeps the word Locked.
C8_Witness ==
  \E p, q \in Procs :
    /\ op[p] = "guard"
    /\ pc[p] = "after_wait"
    /\ waitResult[p] = "timed-out"
    /\ held[q][1] = 1
    /\ word[1] = Locked

\* Every participant is idle and holds nothing.
Quiescent ==
  \A p \in Procs : pc[p] = "idle" /\ \A b \in Buffers : held[p][b] = 0

\* C9: deadlock freedom under contention.  With acquisitions that have no
\* deadline, each followed by a release, and fair scheduling: every attempt
\* ends with the lock acquired, no operation fails, the work unit of every
\* rapidGuard runs exactly once, and in the end everybody is idle with the
\* word Unlocked.
C9_DeadlockFree ==
  /\ \A p \in 1..(NumProcs + 1) :
       InAttempt(p)
         ~> (result[p] = <<"Acquired", Infinity>> \/ pc[p] = "guard_fn")
  /\ \A p \in 1..(NumProcs + 1) : (pc[p] # "idle") ~> (pc[p] = "idle")
  /\ [][\A p \in Procs :
          /\ result'[p][1] \in {"none", "Acquired", "Done", "FnReturn", "FnThrow"}
          /\ (GuardHolds(p) /\ pc'[p] = "idle") => fnRuns[p] = 1]_vars
  /\ <>[](Quiescent /\ \A b \in DOMAIN createMutex : word[b] = Unlocked)

\* C9 witness: all three acquisitions have been made, the lock has been
\* released, and a participant parked meanwhile was woken and got it in turn.
C9_Witness ==
  /\ calls = MaxCalls
  /\ Quiescent
  /\ word[1] = Unlocked
  /\ \E p, q \in Procs : p # q /\ spent[p][1] /\ result[q][1] \in {"FnReturn", "FnThrow"}

\* C11: a successful release wakes everybody.  The notify of a release that
\* took the word from Locked to Unlocked moves every participant parked on
\* that word out of the wait primitive with the outcome "ok", all of them in
\* that one step; so nobody stays parked on an Unlocked word once the release
\* has returned.
C11_ReleaseWakesAll ==
  /\ [][\A p \in Procs :
          (pc[p] = "unlock_notify" /\ pc'[p] # "unlock_notify")
            => \A q \in Waiters(buf[p]) :
                 pc'[q] = "after_wait" /\ waitResult'[q] = "ok"]_vars
  /\ [](\A b \in Buffers :
          (word[b] = Unlocked /\ Waiters(b) # {})
            => \E p \in Procs : pc[p] = "unlock_notify" /\ buf[p] = b)

\* C11 witness: one release has just woken two participants that were parked
\* on the word together.
C11_Witness ==
  \E p, q, r \in Procs :
    /\ q # r
    /\ result[p] = <<"Done", 0>>
    /\ releasedAt >= 0
    /\ pc[q] = "after_wait" /\ waitResult[q] = "ok"
    /\ pc[r] = "after_wait" /\ waitResult[r] = "ok"

\* This step ends x's attempt with a handle.
Acquires(x) ==
  /\ InAttempt(x)
  /\ result'[x][1] = "Acquired" \/ pc'[x] = "guard_fn"

\* q has been woken by a release and has not gone back to its loop yet.
Woken(q) == pc[q] = "after_wait" /\ waitResult[q] = "ok"

\* C12 as stated: after a release the woken waiters race and the lock goes to
\* exactly one of them, the others waiting again.  So while a woken waiter is
\* about to race, nobody but a woken waiter takes the lock, and a woken waiter
\* that is not given the lock goes back to its loop and, losing, waits again.
C12_OneWokenWaiterWins ==
  [][\A x \in Procs :
       /\ (Acquires(x) /\ \E q \in Procs \ {x} : Woken(q) /\ buf[q] = buf[x])
            => pc[x] = "cas2"
       /\ (Woken(x) /\ pc'[x] # pc[x]) => pc'[x] = "loop"
       /\ (pc[x] = "cas2" /\ pc'[x] # "cas2" /\ ~Acquires(x))
            => pc'[x] = "wait_call"]_vars

\* C12 amended: after a release every woken waiter goes back to the head of
\* its loop; an attempt gets a handle only by a compare-and-swap that takes
\* the word from Unlocked to Locked, so of all the racers, woken or newly
\* arrived, at most one succeeds before the next release; and a racer whose
\* compare-and-swap in the loop fails gets no handle and calls the wait
\* primitive again.
C12_AtMostOneWins ==
  [][\A x \in Procs :
       /\ (Woken(x) /\ pc'[x] # pc[x])
            => pc'[x] = "loop" /\ word' = word /\ held' = held
       /\ Acquires(x)
            => /\ pc[x] \in {"cas1", "cas2"}
               /\ word[buf[x]] = Unlocked
               /\ word'[buf[x]] = Locked
               /\ \A y \in Procs \ {x} : ~Acquires(y)
       /\ (pc[x] = "cas2" /\ pc'[x] # "cas2" /\ ~Acquires(x))
            => /\ word[buf[x]] = Locked
               /\ word' = word
               /\ pc'[x] = "wait_call"
       /\ (pc[x] = "wait_call" /\ pc'[x] # "wait_call")
            => pc'[x] \in {"waiting", "after_wait"} /\ held' = held]_vars

\* C12 witness: after a release that woke two parked waiters, one of them
\* holds the lock and the other is parked again.
C12_Witness ==
  \E p, q, r \in Procs :
    /\ spent[p][1] /\ pc[p] = "idle"
    /\ releasedAt >= 0
    /\ result[q] = <<"Acquired", Infinity>> /\ held[q][1] = 1
    /\ pc[r] = "waiting"
    /\ calls = MaxCalls

\* C13: lock word invariant.  The lock word of the buffer of createMutex() and
\* of every buffer derived from a string holds Unlocked (0) or Locked (1) in
\* every state that lock, lockSync, unlock, isLocked and the release of
\* handles reach, in any interleaving.
C13_LockWordInvariant ==
  \A b \in Buffers : word[b] \in {Unlocked, Locked}

\* C13 witness: a buffer derived from a string is Locked and seen so by
\* isLocked(), after an unlock() of the Unlocked buffer of createMutex() failed.
C13_Witness ==
  /\ 2 \in Buffers
  /\ bytes[2] # <<>>
  /\ word[2] = Locked
  /\ word[1] = Unlocked
  /\ \E p, q \in Procs :
       result[p] = <<"IsLocked", 1>> /\ result[q] = <<"NotLocked", 0>>

\* p is inside lock or lockSync on a buffer of which it holds a handle.
Reentering(p) == InAttempt(p) /\ held[p][buf[p]] > 0

\* C14: no re-entrancy.  Where handles are released by the participants that
\* got them, a participant that holds the lock and calls lock or lockSync on
\* the same buffer never has two unreleased handles; its attempt can end only
\* with the timed-out error of a finite timeout, leaving the word Locked and
\* the first handle held; with a finite timeout it does end so, and with no
\* timeout it never returns.
C14_NoReentrancy ==
  /\ [](\A p \in Procs, b \in Buffers : held[p][b] <= 1)
  /\ [][\A p \in Procs :
          /\ (Reentering(p) /\ pc'[p] = "idle")
               => /\ timeoutMs[p] # Infinity
                  /\ result'[p] = <<"TimedOut", timeoutMs[p]>>
                  /\ word'[buf[p]] = Locked
                  /\ held' = held
          /\ (Reentering(p) /\ timeoutMs[p] = Infinity) => Reentering(p)']_vars
  /\ \A p \in 1..NumProcs :
       (Reentering(p) /\ timeoutMs[p] # Infinity)
         ~> (result[p][1] = "TimedOut" /\ held[p][1] = 1)

\* C14 witness: the holder's own second attempt, with a timeout of 1, has
\* timed out and its first handle still keeps the word Locked.
C14_Witness ==
  \E p \in Procs :
    /\ held[p][1] = 1
    /\ word[1] = Locked
    /\ pc[p] = "idle"
    /\ result[p] = <<"TimedOut", 1>>
    /\ \A q \in Procs \ {p} : held[q][1] = 0 /\ result[q] = None

\* C15: invalid timeout.  lock and lockSync called with a negative timeout or
\* with one that is not a number fail at once with the invalid-timeout error:
\* no compare-and-swap runs, so the lock word is unchanged even when it is
\* Unlocked, no handle is produced and the wait primitive is not invoked; and
\* this error arises nowhere else than at the call.
C15_InvalidTimeout ==
  [][\A p \in Procs :
       /\ \A b \in Buffers, t \in {-1, NonNumeric} :
            (lock(p, b, t) \/ lockSync(p, b, t))
              => /\ result'[p] = <<"InvalidTimeout", 0>>
                 /\ pc'[p] = "idle"
                 /\ word' = word
                 /\ held' = held
       /\ (result'[p][1] = "InvalidTimeout" /\ result'[p] # result[p])
            => /\ pc[p] = "idle" /\ pc'[p] = "idle"
               /\ word' = word
               /\ held' = held]_vars

\* C15 witness: a call with an invalid timeout has failed on an Unlocked word,
\* which nobody holds and which is still Unlocked.
C15_Witness ==
  \E p \in Procs :
    /\ result[p] = <<"InvalidTimeout", 0>>
    /\ word[1] = Unlocked
    /\ \A q \in Procs : held[q][1] = 0 /\ pc[q] = "idle"

\* p is at one of the compare-and-swaps of its operation.
AtCas(p) == pc[p] \in {"cas1", "cas2", "unlock_cas"}

\* C16: buffer independence.  A step changes the lock word of a buffer only
\* by the compare-and-swap of an operation called on that buffer, and a
\* handle's release only that of the buffer the handle was issued for; deriving
\* a buffer from a string always makes a new buffer, Unlocked, and leaves the
\* words of the others alone, also when the same string was given before; and
\* whether a compare-and-swap takes a lock depends on that buffer's word only.
C16_BufferIndependence ==
  [][/\ \A b \in Buffers :
          word'[b] # word[b]
            => \E p \in Procs :
                 /\ AtCas(p) /\ buf[p] = b /\ pc'[p] # pc[p]
                 /\ op[p] \in {"dispose", "redispose"}
                      => held[p][b] > 0 \/ spent[p][b]
     /\ \A p \in Procs, x \in Names :
          withMutex(p, [kind |-> "string", str |-> x])
            => /\ result'[p][1] = "Mutex"
               /\ result'[p][2] \notin Buffers
               /\ word'[result'[p][2]] = Unlocked
               /\ \A b \in Buffers : word'[b] = word[b] /\ bytes'[b] = bytes[b]
     /\ \A p \in Procs :
          (pc[p] \in {"cas1", "cas2"} /\ pc'[p] # pc[p]
             /\ word[buf[p]] = Unlocked)
            => Acquires(p) /\ word'[buf[p]] = Locked]_vars

\* C16 witness: two buffers derived from the same string, one of them Locked
\* and held, the other Unlocked.
C16_Witness ==
  /\ Buffers = {1, 2, 3}
  /\ bytes[2] = bytes[3]
  /\ word[2] = Locked
  /\ word[3] = Unlocked
  /\ \E p \in Procs : held[p][2] = 1 /\ result[p][1] = "Acquired"

RECURSIVE Utf8Length(_)
\* The number of bytes of the UTF-8 encoding of a string of the basic plane.
Utf8Length(str) ==
  IF str = <<>> THEN 0
  ELSE (IF Head(str) < 128 THEN 1 ELSE IF Head(str) < 2048 THEN 2 ELSE 3)
         + Utf8Length(Tail(str))

\* C18: for every non-empty identifier, of N bytes once encoded, the buffer
\* withMutex derives has as byte length the smallest multiple of 4 that is at
\* least 4 + N, and its first word is Unlocked.
C18_AlignedLength ==
  [][\A x \in Identifiers \ {<<>>} :
       withMutex(1, [kind |-> "string", str |-> x])
         => LET nb == result'[1][2]
                byteLength == 4 + Len(bytes'[nb])
                N == Utf8Length(x)
            IN  /\ result'[1][1] = "Mutex"
                /\ byteLength % 4 = 0
                /\ byteLength >= 4 + N
                /\ byteLength - 4 < 4 + N
                /\ word'[nb] = Unlocked]_vars

\* C18 witness: a buffer derived from an identifier of exactly four bytes: it
\* has eight bytes, the last of them a byte of the identifier, no padding.
C18_Witness ==
  /\ 2 \in Buffers
  /\ result[1] = <<"Mutex", 2>>
  /\ Len(bytes[2]) = 4
  /\ bytes[2][4] # 0
  /\ word[2] = Unlocked

\* The wait of p's attempt has returned woken ("ok") or value-mismatch
\* ("not-equal"), and p has not called the wait primitive again.
WaitReturned(p) == InAttempt(p) /\ waitResult[p] \in {"ok", "not-equal"}

\* C19: after the wait primitive returns woken or value-mismatch, the acquirer
\* goes back to its loop and next makes a compare-and-swap attempt; it does
\* not fail with the timed-out error before that attempt.
C19_CasAfterWake ==
  [][\A p \in Procs :
       /\ (WaitReturned(p) /\ pc[p] = "after_wait" /\ pc'[p] # pc[p])
            => pc'[p] = "loop"
       /\ (WaitReturned(p) /\ pc[p] = "loop" /\ pc'[p] # pc[p])
            => pc'[p] = "cas2" /\ result'[p][1] # "TimedOut"]_vars

\* p's attempt has a finite timeout.
Timed(p) == InAttempt(p) /\ timeoutMs[p] # Infinity

\* C20: the remaining time.  In every iteration of an attempt with a finite
\* timeout T, `elapsed` is the time since the attempt started as read at the
\* head of the loop, and the wait primitive is given T - elapsed, floored at
\* 0: with nothing left a Locked word makes it return timed-out at once, and
\* otherwise the wait expires T - elapsed after its call.  So a parked
\* participant's wait never lasts longer than what is left of T, however
\* often the participant was woken before.
C20_RemainingTime ==
  /\ [][\A p \in Procs :
          /\ (Timed(p) /\ pc[p] = "loop" /\ pc'[p] = "cas2")
               => elapsed'[p] = now - start[p] /\ elapsed'[p] <= timeoutMs[p]
          /\ (Timed(p) /\ pc[p] = "wait_call" /\ pc'[p] # "wait_call")
               => LET remainingTime == Max(0, timeoutMs[p] - elapsed[p])
                  IN  IF word[buf[p]] # Locked
                      THEN pc'[p] = "after_wait" /\ waitResult'[p] = "not-equal"
                      ELSE IF remainingTime = 0
                      THEN pc'[p] = "after_wait" /\ waitResult'[p] = "timed-out"
                      ELSE /\ pc'[p] = "waiting"
                           /\ waitDeadline'[p] = now + remainingTime]_vars
  /\ [](\A p \in Procs :
          (Timed(p) /\ pc[p] = "waiting")
            => /\ waitDeadline[p] >= start[p] + timeoutMs[p]
               /\ waitDeadline[p] <= now + timeoutMs[p] - elapsed[p])

\* C20 witness: after a release, with the lock taken by somebody else again, a
\* participant whose timeout of 1 is used up calls the wait primitive with
\* nothing left and gets timed-out at once.
C20_Witness ==
  \E p, q \in Procs :
    /\ p # q
    /\ pc[p] = "after_wait" /\ waitResult[p] = "timed-out"
    /\ timeoutMs[p] = 1 /\ elapsed[p] = 1
    /\ now = start[p] + 1
    /\ releasedAt >= start[p]
    /\ held[q][1] = 1

\* C17: the fallback wait strategy.  The fallback waitAsync resolves with one
\* of the native outcomes "ok", "not-equal" and "timed-out" only; called on a
\* word that already differs from the expected value it reports "not-equal"
\* as the native one does, whatever the budget, 0 included, and "timed-out"
\* only when the budget has run out with the word still as expected.
C17_FallbackAgrees ==
  [][\A p \in Procs :
       /\ (pc[p] \in {"wait_call", "poll", "slice_call"}
             /\ pc'[p] = "after_wait")
            => /\ waitResult'[p] \in {"ok", "not-equal", "timed-out"}
               /\ waitResult'[p] = "timed-out" => now >= waitDeadline'[p]
       /\ (pc[p] = "wait_call" /\ pc'[p] = "after_wait")
            => waitResult'[p] =
                 AtomicsWait(word[buf[p]], Locked, waitDeadline'[p] - now)
       /\ (pc[p] = "wait_call" /\ word[buf[p]] # Locked
             /\ pc'[p] # "wait_call")
            => waitResult'[p] # "timed-out"]_vars

\* The steps of the async lock's own code, and those of lockSync's.
AsyncStep(p) ==
  \/ lock_TryLock(p)
  \/ lock_Elapsed(p)
  \/ lock_Retry(p)
  \/ lock_Wait(p)
  \/ lock_AfterWait(p)

SyncStep(p) ==
  \/ lockSync_TryLock(p)
  \/ lockSync_Elapsed(p)
  \/ lockSync_Retry(p)
  \/ lockSync_Wait(p)
  \/ lockSync_AfterWait(p)

\* p runs lock and q runs lockSync, both at the same place of their code, on
\* the same buffer, with the same locals.
Twins(p, q) ==
  /\ op[p] = "lock"
  /\ op[q] = "lockSync"
  /\ pc[p] = pc[q]
  /\ pc[p] \in {"cas1", "loop", "cas2", "wait_call", "after_wait"}
  /\ buf[p] = buf[q]
  /\ timeoutMs[p] = timeoutMs[q]
  /\ start[p] = start[q]
  /\ elapsed[p] = elapsed[q]
  /\ waitDeadline[p] = waitDeadline[q]
  /\ waitResult[p] = waitResult[q]

\* Where a step of an attempt can lead, and what it can leave behind.
Places ==
  {"idle", "cas1", "loop", "cas2", "wait_call", "waiting", "after_wait"}

Ends ==
  {None, <<"Interrupted", 0>>}
    \cup {<<k, t>> : k \in {"Acquired", "TimedOut"},
                     t \in (0..MaxTimeout) \cup {Infinity}}

WaitResults == {"none", "ok", "not-equal", "timed-out", "interrupted"}

\* C21: lock and lockSync are the same state machine.  Whenever a lock and a
\* lockSync stand at the same place with the same locals on the same buffer,
\* so that their next step sees the same word and the same clock, the two
\* steps lead to the same place, end in the same result (Acquired, TimedOut,
\* Interrupted or none yet), leave the same locals and write the same value
\* to the lock word.
C21_SameStateMachine ==
  \A p, q \in Procs :
    Twins(p, q) =>
      /\ \A x \in Places :
           ENABLED (AsyncStep(p) /\ pc'[p] = x)
             <=> ENABLED (SyncStep(q) /\ pc'[q] = x)
      /\ \A r \in Ends :
           ENABLED (AsyncStep(p) /\ result'[p] = r)
             <=> ENABLED (SyncStep(q) /\ result'[q] = r)
      /\ \A w \in {Unlocked, Locked} :
           ENABLED (AsyncStep(p) /\ word'[buf[p]] = w)
             <=> ENABLED (SyncStep(q) /\ word'[buf[q]] = w)
      /\ \A e \in 0..(MaxTime + MaxTimeout + 1) :
           /\ ENABLED (AsyncStep(p) /\ elapsed'[p] = e)
                <=> ENABLED (SyncStep(q) /\ elapsed'[q] = e)
           /\ ENABLED (AsyncStep(p) /\ waitDeadline'[p] = e)
                <=> ENABLED (SyncStep(q) /\ waitDeadline'[q] = e)
      /\ \A r \in WaitResults :
           ENABLED (AsyncStep(p) /\ waitResult'[p] = r)
             <=> ENABLED (SyncStep(q) /\ waitResult'[q] = r)

\* C21 witness: a lock and a lockSync that started together with a timeout of
\* 1 have both been woken by the same release and stand at the head of their
\* loops one unit later, the word being Unlocked.
C21_Witness ==
  \E p, q \in Procs :
    /\ Twins(p, q)
    /\ pc[p] = "loop"
    /\ waitResult[p] = "ok"
    /\ timeoutMs[p] = 1
    /\ now - start[p] = 1
    /\ word[buf[p]] = Unlocked

\* p is inside a lock(0) or lockSync(0) called as such.
ZeroAttempt(p) ==
  /\ InAttempt(p)
  /\ op[p] \in {"lock", "lockSync"}
  /\ timeoutMs[p] = 0

\* C22: zero timeout acts as a try-lock.  lock(0) and lockSync(0) return the
\* handle at their first compare-and-swap when the word is Unlocked.  While
\* the word is Locked no step of theirs acquires, writes the word or parks in
\* the wait primitive: the wait returns timed-out at once and the attempt can
\* only end in the timed-out error, with the word still Locked.  Under fair
\* scheduling an attempt that finds the word Locked does end so, unless the
\* word is released meanwhile.
C22_ZeroTimeoutTryLock ==
  /\ [][\A p \in Procs :
          /\ (ZeroAttempt(p) /\ pc[p] = "cas1" /\ pc'[p] # "cas1"
                /\ word[buf[p]] = Unlocked)
               => /\ result'[p] = <<"Acquired", 0>>
                  /\ word'[buf[p]] = Locked
          /\ (ZeroAttempt(p) /\ pc'[p] # pc[p] /\ word[buf[p]] = Locked)
               => /\ word' = word
                  /\ result'[p][1] # "Acquired"
                  /\ held'[p] = held[p]
                  /\ pc'[p] # "waiting"
                  /\ pc'[p] = "idle" => result'[p] = <<"TimedOut", 0>>
                  /\ pc[p] = "wait_call"
                       => pc'[p] = "after_wait" /\ waitResult'[p] = "timed-out"
                  /\ (pc[p] = "after_wait" /\ waitResult[p] = "timed-out")
                       => pc'[p] = "idle"]_vars
  /\ \A p \in 1..NumProcs :
       (ZeroAttempt(p) /\ word[buf[p]] = Locked)
         ~> \/ word[buf[p]] = Unlocked
            \/ pc[p] = "idle" /\ result[p] = <<"TimedOut", 0>>

\* C22 witness: a zero-timeout attempt has gone through its wait, which
\* returned timed-out at once, and failed in the same instant it started; the
\* other participant's handle keeps the word Locked.
C22_Witness ==
  \E p, q \in Procs :
    /\ result[p] = <<"TimedOut", 0>>
    /\ pc[p] = "idle"
    /\ held[p][1] = 0
    /\ held[q][1] = 1
    /\ word[1] = Locked
    /\ now = 0

\* The releasers of buffer b whose compare-and-swap from Locked to Unlocked is
\* done and whose Atomics.notify is still to come.
NotifyPending(b) == {r \in Procs : pc[r] = "unlock_notify" /\ buf[r] = b}

\* C23: no lost wake-up.  Whenever a participant is blocked in the wait
\* primitive on a lock word, the word is Locked or a releaser of that buffer
\* stands between its compare-and-swap and its notify.
C23_NoLostWakeup ==
  \A b \in Buffers :
    Waiters(b) # {} => (word[b] = Locked \/ NotifyPending(b) # {})

\* C23 witness: a participant is blocked in lockSync's Atomics.wait with no
\* deadline while the word is already Unlocked, the releaser being about to
\* notify.
C23_Witness ==
  \E q \in Procs :
    /\ q \in Waiters(buf[q])
    /\ op[q] = "lockSync"
    /\ waitDeadline[q] = Infinity
    /\ word[buf[q]] = Unlocked
    /\ NotifyPending(buf[q]) # {}

\* C24: the standalone unlock() checks no ownership.  Whoever calls it, its
\* compare-and-swap on a Locked word sets the word to Unlocked and raises no
\* error, and its notify wakes every waiter of the buffer and returns
\* normally; so too when the caller holds no handle and another participant's
\* handle is unreleased.
C24_UnlockAnyone ==
  [][\A p \in Procs :
       /\ (op[p] = "unlock" /\ pc[p] = "unlock_cas" /\ pc'[p] # "unlock_cas"
             /\ word[buf[p]] = Locked)
            => /\ word'[buf[p]] = Unlocked
               /\ pc'[p] = "unlock_notify"
               /\ result'[p] = None
       /\ (op[p] = "unlock" /\ pc[p] = "unlock_notify"
             /\ pc'[p] # "unlock_notify")
            => /\ result'[p] = <<"Done", 0>>
               /\ word' = word
               /\ \A q \in Waiters(buf[p]) :
                    pc'[q] = "after_wait" /\ waitResult'[q] = "ok"]_vars

\* C24 witness: a participant that never got a handle has returned normally
\* from unlock(); the word is Unlocked although another participant's handle
\* is unreleased, and a third one was woken from its wait.
C24_Witness ==
  \E p, q, r \in Procs :
    /\ result[p] = <<"Done", 0>>
    /\ pc[p] = "idle"
    /\ held[p][1] = 0
    /\ ~spent[p][1]
    /\ held[q][1] = 1
    /\ word[1] = Unlocked
    /\ pc[r] = "after_wait"
    /\ waitResult[r] = "ok"

\* Buffer b's first word holds a value that LockStatus does not have.
Foreign(b) == word[b] \notin {Unlocked, Locked}

\* C25: a caller's buffer whose first word is neither 0 nor 1.  withMutex
\* wraps it without changing the word; after that no step of lock, lockSync,
\* unlock or a handle's release changes the word, no attempt on the buffer
\* gets a handle, unlock() on it fails with the not-locked error, and under
\* fair scheduling every attempt on it with a finite timeout ends in the
\* timed-out error.
C25_ForeignWord ==
  /\ [][\A b \in Buffers : Foreign(b) =>
          /\ word'[b] = word[b]
          /\ \A p \in Procs :
               /\ (pc[p] = "idle" /\ result'[p] # result[p]
                     /\ result'[p][1] = "Mutex")
                    => word' = word
               /\ (buf[p] = b /\ InAttempt(p))
                    => /\ result'[p][1] # "Acquired"
                       /\ held'[p][b] = held[p][b]
                       /\ pc'[p] # "waiting"
               /\ (buf[p] = b /\ op[p] = "unlock" /\ pc[p] = "unlock_cas"
                     /\ pc'[p] # "unlock_cas")
                    => /\ result'[p] = <<"NotLocked", 0>>
                       /\ pc'[p] = "idle"]_vars
  /\ \A p \in 1..NumProcs :
       (InAttempt(p) /\ Foreign(buf[p]) /\ timeoutMs[p] # Infinity)
         ~> (pc[p] = "idle" /\ result[p][1] = "TimedOut")

\* C25 witness: on a buffer whose word is still the caller's value, one
\* participant's attempt with a timeout of 1 has ended in the timed-out error
\* and the other's unlock() in the not-locked error.
C25_Witness ==
  \E p, q \in Procs :
    /\ Foreign(2)
    /\ buf[p] = 2
    /\ result[p] = <<"TimedOut", 1>>
    /\ buf[q] = 2
    /\ result[q] = <<"NotLocked", 0>>
====
